---------------------------- MODULE Spec2Model ----------------------------
(***************************************************************************)
(* Model of src/ffnetwork.py: the FFNetwork constructor                    *)
(* (FFNetwork.__init__ and FFNetwork._define_network), the graph-build     *)
(* pass (FFNetwork.build_graph) and FFNetwork.time_embed.                  *)
(*                                                                         *)
(* Python values are records [t, v]: t is the Python type, v the payload   *)
(* as a sequence (one element for a scalar, the elements for a list).      *)
(* The caller's configuration record params_dict is a function from key    *)
(* to value.  The value the caller supplied under a key is drawn when the  *)
(* constructor first reads that key; until then the key is Unread.         *)
(* Python list indices are 0-based, sequences here are 1-based: list       *)
(* element nn is sequence element nn + 1.                                  *)
(***************************************************************************)
EXTENDS Integers, Sequences, FiniteSets, TLC

VARIABLES
    pc,             \* position of the constructor / build pass
    scope,          \* argument scope
    input_dims,     \* the object the local name input_dims refers to
    alias,          \* what that object is: "arg", "params_dict" or "fresh"
    arg_input_dims, \* the caller's input_dims argument object
    have_params,    \* FALSE when params_dict is None
    params_dict,    \* the caller's record, mutated in place by __init__
    fld,            \* which of the broadcast fields is handled next
    bare,           \* TRUE while every key __init__ defaults was found absent
    self_scope,     \* self.scope
    self_input_dims,\* self.input_dims
    num_layers,     \* self.num_layers
    layer_types,    \* self.layer_types
    layers,         \* self.layers
    time_expand,    \* self.time_expand
    time_spread,    \* self.time_spread
    log,            \* self.log
    err,            \* the exception that left the constructor, if any
    batch_size,     \* build_graph argument batch_size
    inputs,         \* build_graph: the running input tensor
    received,       \* build_graph: the tensor each built layer was given
    te,             \* time_embed: the call under evaluation
    given_input_dims, \* the input_dims argument as the caller passed it
    fit,            \* build_fit_variable_list: the call under evaluation
    side,           \* SideNetwork: the upstream record and the attributes it derives
    sampler         \* SamplerNetwork: the locations and the resolved build input

vars == <<pc, scope, input_dims, alias, arg_input_dims, have_params, params_dict,
          fld, bare, self_scope, self_input_dims, num_layers, layer_types, layers,
          time_expand, time_spread, log, err, batch_size, inputs, received, te,
          given_input_dims, fit, side, sampler>>

---------------------------------------------------------------------------
(* Bounds of the model. *)

MaxLayers == 2      \* longest layer_sizes list
MaxBatch == 2       \* largest batch size of a build pass
MaxTEBatch == 3     \* largest batch size of a time_embed call
MaxTEFeat == 2      \* largest feature count of a time_embed call
MaxTELags == 3      \* largest lag count of a time_embed call

---------------------------------------------------------------------------
(* Python values. *)

Val(t, v) == [t |-> t, v |-> v]
Unread == Val("unread", <<>>)
Absent == Val("absent", <<>>)
None == Val("none", <<>>)
IntV(n) == Val("int", <<n>>)
StrV(s) == Val("str", <<s>>)
BoolV(b) == Val("bool", <<b>>)
ListV(s) == Val("list", s)

IsList(x) == x.t = "list"
Rep(x, n) == [i \in 1..n |-> x]

RECURSIVE Sum(_)
Sum(s) == IF s = <<>> THEN 0 ELSE Head(s) + Sum(Tail(s))

RECURSIVE Prod(_)
Prod(s) == IF s = <<>> THEN 1 ELSE Head(s) * Prod(Tail(s))

SeqsOfLen(S, n) == [1..n -> S]

---------------------------------------------------------------------------
(* Exceptions.  NoErr: none raised. *)

Exc(class, msg, index) == [class |-> class, msg |-> msg, index |-> index]
NoErr == Exc("none", "", -1)

---------------------------------------------------------------------------
(* The keys of the configuration record, and the values a caller supplies. *)

Keys == {"input_dims", "layer_sizes", "layer_types", "activation_funcs",
         "weights_initializers", "biases_initializers", "reg_initializers",
         "num_inh", "pos_constraints", "time_expand", "log_activations",
         "normalize_weights", "conv_filter_widths", "shift_spacing",
         "dilation", "xy_out",
         "locationnet_n", "num_locations", "location_initializer"}

ScopeChoices == {None, StrV("net")}

InputDimsChoices ==
    {None, IntV(4), ListV(<<4>>), ListV(<<1, 4, 1>>), ListV(<<1, 2, 2, 3>>)}

RecordInputDimsChoices == {Absent, None, IntV(4), ListV(<<2, 2>>)}

\* layer_sizes: absent, or one declared size per layer (layer nn has size nn + 2)
LayerSizesChoices == {Absent} \cup {ListV([i \in 1..n |-> i + 1]) : n \in 1..MaxLayers}

LayerTypeChoices == {"normal", "conv", "temporal", "sp_temporal", "bogus"}

\* layer_types: absent, one tag per layer, one tag too few, or one extra tag
LayerTypesChoices(n) ==
    {Absent}
    \cup {ListV(s) : s \in SeqsOfLen(LayerTypeChoices, n)}
    \cup {ListV(s) : s \in SeqsOfLen(LayerTypeChoices, n - 1)}
    \cup {ListV(Append(s, "bogus")) : s \in SeqsOfLen(LayerTypeChoices, n)}

LagChoices == {0, 2}

\* time_expand: absent, a single value, or a list one shorter than, as long as
\* or one longer than the layer list
TimeExpandChoices(n) ==
    {Absent, IntV(2)}
    \cup {ListV(s) : s \in SeqsOfLen(LagChoices, n - 1) \cup SeqsOfLen(LagChoices, n)
                         \cup SeqsOfLen(LagChoices, n + 1)}

\* the five fields __init__ broadcasts, in the order it handles them, with the
\* default each takes when absent and the message of its length error
BroadcastFields ==
    << [key |-> "activation_funcs", default |-> StrV("relu"),
        msg |-> "Invalid number of activation_funcs"],
       [key |-> "weights_initializers", default |-> StrV("trunc_normal"),
        msg |-> "Invalid number of weights_initializer"],
       [key |-> "biases_initializers", default |-> StrV("zeros"),
        msg |-> "Invalid number of biases_initializer"],
       [key |-> "num_inh", default |-> IntV(0),
        msg |-> "Invalid number of num_inh"],
       [key |-> "pos_constraints", default |-> BoolV(FALSE),
        msg |-> "Invalid number of pos_con"] >>

\* what a caller may supply for a broadcast field: nothing, a single value, or a
\* list one shorter than, as long as or one longer than the layer list
FieldChoices(f, n) ==
    {Absent, f.default}
    \cup {ListV(Rep(f.default.v[1], k)) : k \in {k \in {n - 1, n, n + 1} : k >= 0}}

LogChoices == {Absent, BoolV(FALSE), BoolV(TRUE)}

---------------------------------------------------------------------------
(* FFNetwork.__init__ *)

Fail(e) == pc' = "failed" /\ err' = e

\* what the record holds under key k: drawn from `choices` when __init__ reads
\* the key for the first time, the value already known otherwise
Supplied(k, choices) == IF params_dict[k].t = "unread" THEN choices ELSE {params_dict[k]}

\* what __init__ leaves alone before it calls _define_network: the self.*
\* attributes set there and by the build pass, and the state of other calls
netVars == <<layers, time_expand, time_spread, log, batch_size, inputs, received, te,
             given_input_dims, fit, side, sampler>>

\* lines 160-161 and 177-181: the default of an absent key
DefaultIfAbsent(v, default) == IF v.t = "absent" THEN default ELSE v

\* lines 106-109
CheckScope ==
    /\ pc = "scope"
    /\ IF scope.t = "none"
       THEN Fail(Exc("TypeError", "Must specify network scope", -1))
            /\ UNCHANGED self_scope
       ELSE pc' = "params" /\ self_scope' = scope /\ UNCHANGED err
    /\ UNCHANGED <<scope, input_dims, alias, arg_input_dims, have_params, params_dict,
                   fld, bare, self_input_dims, num_layers, layer_types>>
    /\ UNCHANGED netVars

\* lines 111-112
CheckParamsDict ==
    /\ pc = "params"
    /\ IF ~have_params
       THEN Fail(Exc("TypeError", "Must specify parameters dictionary.", -1))
       ELSE pc' = "resolve" /\ UNCHANGED err
    /\ UNCHANGED <<scope, input_dims, alias, arg_input_dims, have_params, params_dict,
                   fld, bare, self_scope, self_input_dims, num_layers, layer_types>>
    /\ UNCHANGED netVars

\* lines 114-117: params_dict['input_dims'] raises KeyError when the key is absent
ResolveInputDims ==
    /\ pc = "resolve"
    /\ IF input_dims.t = "none"
       THEN \E v \in Supplied("input_dims", RecordInputDimsChoices) :
              /\ params_dict' = [params_dict EXCEPT !["input_dims"] = v]
              /\ IF v.t = "absent"
                 THEN Fail(Exc("KeyError", "input_dims", -1))
                      /\ UNCHANGED <<input_dims, alias>>
                 ELSE IF v.t = "none"
                 THEN Fail(Exc("TypeError", "Must specify input dimensions.", -1))
                      /\ UNCHANGED <<input_dims, alias>>
                 ELSE pc' = "format" /\ input_dims' = v /\ alias' = "params_dict"
                      /\ UNCHANGED err
       ELSE pc' = "format" /\ UNCHANGED <<input_dims, alias, params_dict, err>>
    /\ UNCHANGED <<scope, arg_input_dims, have_params, fld, bare, self_scope,
                   self_input_dims, num_layers, layer_types>>
    /\ UNCHANGED netVars

\* lines 122-123: while len(input_dims) < 3: input_dims.append(1)
PadOnes(s) == IF Len(s) < 3 THEN s \o Rep(1, 3 - Len(s)) ELSE s

\* lines 119-124: a list is padded in place, so the object the caller (or the
\* record) holds is padded too; self.input_dims is a copy
FormatInputDims ==
    /\ pc = "format"
    /\ IF ~IsList(input_dims)
       THEN /\ input_dims' = ListV(<<1, input_dims.v[1], 1>>)
            /\ alias' = "fresh"
            /\ UNCHANGED <<arg_input_dims, params_dict>>
       ELSE /\ input_dims' = ListV(PadOnes(input_dims.v))
            /\ UNCHANGED alias
            /\ arg_input_dims' = IF alias = "arg" THEN input_dims' ELSE arg_input_dims
            /\ params_dict' = IF alias = "params_dict"
                              THEN [params_dict EXCEPT !["input_dims"] = input_dims']
                              ELSE params_dict
    /\ self_input_dims' = input_dims'.v
    /\ pc' = "sizes"
    /\ UNCHANGED <<scope, have_params, fld, bare, self_scope, num_layers, layer_types, err>>
    /\ UNCHANGED netVars

\* lines 127-134: params_dict['layer_types'] raises KeyError when the key is absent
CheckLayerSizes ==
    /\ pc = "sizes"
    /\ \E ls \in Supplied("layer_sizes", LayerSizesChoices) :
         IF ls.t = "absent"
         THEN /\ params_dict' = [params_dict EXCEPT !["layer_sizes"] = ls]
              /\ Fail(Exc("TypeError", "Must specify layer_sizes.", -1))
              /\ UNCHANGED <<num_layers, layer_types>>
         ELSE \E lt \in Supplied("layer_types", LayerTypesChoices(Len(ls.v))) :
              /\ params_dict' = [params_dict EXCEPT !["layer_sizes"] = ls,
                                                    !["layer_types"] = lt]
              /\ num_layers' = Len(ls.v)
              /\ IF lt.t = "absent"
                 THEN Fail(Exc("KeyError", "layer_types", -1)) /\ UNCHANGED layer_types
                 ELSE pc' = "bcast" /\ layer_types' = lt.v /\ UNCHANGED err
    /\ UNCHANGED <<scope, input_dims, alias, arg_input_dims, have_params, fld,
                   bare, self_scope, self_input_dims>>
    /\ UNCHANGED netVars

\* a slip of the length checks: only a list that is too short is rejected
WrongLengthShortOnly(v, n) == IsList(v) /\ Len(v.v) < n

\* lines 141, 149, 157, 167, 174: a supplied list whose length is not num_layers
WrongLength(v, n) == IsList(v) /\ Len(v.v) # n

\* lines 136-140 and alike: the default when absent, a single value replicated
Broadcast(v, default, n) ==
    LET given == IF v.t = "absent" THEN default ELSE v
    IN  IF IsList(given) THEN given ELSE ListV(Rep(given.v[1], n))

\* lines 136-158 and 163-175, one field per step
BroadcastField ==
    /\ pc = "bcast"
    /\ LET f == BroadcastFields[fld]
       IN  \E v \in Supplied(f.key, FieldChoices(f, num_layers)) :
             IF WrongLength(v, num_layers)
             THEN /\ params_dict' = [params_dict EXCEPT ![f.key] = v]
                  /\ Fail(Exc("ValueError", f.msg, -1))
                  /\ UNCHANGED fld
                  /\ bare' = FALSE
             ELSE /\ params_dict' =
                        [params_dict EXCEPT ![f.key] = Broadcast(v, f.default, num_layers)]
                  /\ bare' = (bare /\ v.t = "absent")
                  /\ fld' = fld + 1
                  /\ pc' = IF fld = 3 THEN "reg"
                           ELSE IF fld = Len(BroadcastFields) THEN "tail" ELSE "bcast"
                  /\ UNCHANGED err
    /\ UNCHANGED <<scope, input_dims, alias, arg_input_dims, have_params,
                   self_scope, self_input_dims, num_layers, layer_types>>
    /\ UNCHANGED netVars

\* lines 160-161
DefaultRegInitializers ==
    /\ pc = "reg"
    /\ \E v \in Supplied("reg_initializers",
                      {Absent, ListV(Rep(None, num_layers))}) :
         /\ params_dict' = [params_dict EXCEPT !["reg_initializers"] =
                               DefaultIfAbsent(v, ListV(Rep(None, num_layers)))]
         /\ bare' = (bare /\ v.t = "absent")
    /\ pc' = "bcast"
    /\ UNCHANGED <<scope, input_dims, alias, arg_input_dims, have_params, fld,
                   self_scope, self_input_dims, num_layers, layer_types, err>>
    /\ UNCHANGED netVars

\* lines 177-181: time_expand and log_activations are defaulted, never checked
DefaultTimeExpand ==
    /\ pc = "tail"
    /\ \E tx \in Supplied("time_expand", TimeExpandChoices(num_layers)),
          lg \in Supplied("log_activations", LogChoices) :
         /\ params_dict' =
               [params_dict EXCEPT
                  !["time_expand"] = DefaultIfAbsent(tx, ListV(Rep(0, num_layers))),
                  !["log_activations"] = DefaultIfAbsent(lg, BoolV(FALSE))]
         /\ bare' = (bare /\ tx.t = "absent" /\ lg.t = "absent")
    /\ pc' = "define"
    /\ UNCHANGED <<scope, input_dims, alias, arg_input_dims, have_params, fld,
                   self_scope, self_input_dims, num_layers, layer_types, err>>
    /\ UNCHANGED netVars

---------------------------------------------------------------------------
(* FFNetwork._define_network *)

\* the tags of the elif chain, lines 214-568
RecognisedTypes ==
    {"normal", "sep", "readout", "add", "mult", "filter", "spkNL", "spike_history",
     "conv", "temporal", "sp_temporal", "conv_readout", "conv_xy", "convsep",
     "hadi_readout", "biconv", "convLNL", "grid_shift", "grid_sample"}

ConvTypes == {"conv", "biconv", "convsep", "convLNL", "conv_xy"}
TemporalTypes == {"temporal", "sp_temporal"}

\* a slip of lines 216-227: the dense branches read shift_spacing too, as the
\* convolutional branches do
RequiredKeysWithShift(tag) ==
    CASE tag \in {"normal", "sep", "readout", "add", "mult", "filter", "spike_history"}
            -> <<"normalize_weights", "shift_spacing">>
      [] tag \in {"conv", "convsep", "biconv", "convLNL"}
            -> <<"conv_filter_widths", "shift_spacing", "normalize_weights">>
      [] tag \in {"temporal", "sp_temporal"} -> <<"dilation", "normalize_weights">>
      [] tag \in {"conv_readout", "hadi_readout"} -> <<"xy_out", "normalize_weights">>
      [] tag = "conv_xy"
            -> <<"conv_filter_widths", "xy_out", "shift_spacing", "normalize_weights">>
      [] OTHER -> <<>>

\* the keys a branch of the chain reads with network_params[key][nn] and that
\* __init__ gives no default, in the order the branch evaluates them
RequiredKeys(tag) ==
    CASE tag \in {"normal", "sep", "readout", "add", "mult", "filter", "spike_history"}
            -> <<"normalize_weights">>
      [] tag \in {"conv", "convsep", "biconv", "convLNL"}
            -> <<"conv_filter_widths", "shift_spacing", "normalize_weights">>
      [] tag \in TemporalTypes -> <<"dilation", "normalize_weights">>
      [] tag \in {"conv_readout", "hadi_readout"} -> <<"xy_out", "normalize_weights">>
      [] tag = "conv_xy"
            -> <<"conv_filter_widths", "xy_out", "shift_spacing", "normalize_weights">>
      [] OTHER -> <<>>

\* what a caller supplies under such a key when it supplies it: one entry per layer
HyperChoices(key, n) ==
    CASE key = "conv_filter_widths" -> {ListV(Rep(None, n)), ListV(Rep(IntV(2), n))}
      [] key \in {"shift_spacing", "dilation"} -> {ListV(Rep(IntV(1), n))}
      [] OTHER -> {ListV(Rep(None, n))}

\* line 197-199: the copy of time_expand, padded with zeros when too short
PadTimeExpand(s, n) == IF Len(s) < n THEN s \o Rep(0, n - Len(s)) ELSE s

\* a slip of line 200: the largest lag count instead of the sum
RECURSIVE MaxOf(_)
MaxOf(s) == IF s = <<>> THEN 0
            ELSE IF Head(s) > MaxOf(Tail(s)) THEN Head(s) ELSE MaxOf(Tail(s))

TimeSpreadMax(s) == MaxOf(s)

\* line 200
TimeSpread(s) == Sum(s)

\* lines 195-200: int has no copy(), so a single value raises AttributeError
DefineNetworkStart ==
    /\ pc = "define"
    /\ IF ~IsList(params_dict["time_expand"])
       THEN Fail(Exc("AttributeError", "copy", -1))
            /\ UNCHANGED <<layers, time_expand, time_spread>>
       ELSE /\ layers' = <<>>
            /\ time_expand' = PadTimeExpand(params_dict["time_expand"].v, num_layers)
            /\ time_spread' = TimeSpread(time_expand')
            /\ pc' = "layer"
            /\ UNCHANGED err
    /\ UNCHANGED <<scope, input_dims, alias, arg_input_dims, have_params, params_dict,
                   fld, bare, self_scope, self_input_dims, num_layers, layer_types>>
    /\ UNCHANGED <<log, batch_size, inputs, received, te,
                   given_input_dims, fit, side, sampler>>

\* a slip of lines 209-212: the lag is appended whatever its value
LayerInputDimsAlways(entry, lag) == entry \o <<lag>>

\* lines 205-212: what layer nn is handed as input_dims, from the entry of
\* layer_sizes (the previous layer's output_dims, or self.input_dims for nn = 0)
LayerInputDims(entry, lag) == IF lag > 0 THEN entry \o <<lag>> ELSE entry

\* lines 322-332 and 497-508 ('conv', 'biconv')
ConvFilterSize(dims, width) ==
    IF width.t = "none" THEN dims
    ELSE LET dim0size == IF Len(dims) > 3
                         THEN dims[1] * Prod(SubSeq(dims, 4, Len(dims)))
                         ELSE dims[1]
         IN  <<dim0size, width.v[1], IF dims[3] > 1 THEN width.v[1] ELSE 1>>

\* lines 442-450 and 531-539 ('convsep', 'convLNL')
ConvSepFilterSize(dims, width) ==
    IF width.t = "none" THEN dims
    ELSE <<dims[1], width.v[1], IF dims[3] > 1 THEN width.v[1] ELSE 1>>

\* lines 414-418 ('conv_xy')
ConvXYFilterSize(dims, width) ==
    IF width.t = "none" THEN dims ELSE <<dims[1], width.v[1], width.v[1]>>

FilterDims(tag, dims, width) ==
    CASE tag \in {"conv", "biconv"} -> ConvFilterSize(dims, width)
      [] tag \in {"convsep", "convLNL"} -> ConvSepFilterSize(dims, width)
      [] tag = "conv_xy" -> ConvXYFilterSize(dims, width)
      [] OTHER -> <<>>

\* the output_dims a layer reports: the declared size as a triple, and for
\* the convolutional kinds the filter count over the input's spatial extent
\* divided by the shift spacing
OutputDims(tag, dims, size, shift) ==
    IF tag \in ConvTypes
    THEN <<size, (dims[2] + shift - 1) \div shift, (dims[3] + shift - 1) \div shift>>
    ELSE <<1, size, 1>>

\* a slip of line 578: the index reported counts layers from 1
LayerTypeErrorOneBased(nn) == Exc("TypeError", "Layer type %i not defined.", nn + 1)

\* line 578
LayerTypeError(nn) == Exc("TypeError", "Layer type %i not defined.", nn)

\* a slip of lines 371 and 394: the lag count of a temporal layer is kept
CancelTimeExpandNever(tx, nn, tag) == tx

\* lines 371 and 394: the lag count of a 'temporal' or 'sp_temporal' layer is
\* cancelled in self.time_expand once the layer has it as num_lags
CancelTimeExpand(tx, nn, tag) ==
    IF tag \in TemporalTypes THEN [tx EXCEPT ![nn + 1] = 0] ELSE tx

\* the record after the reads of one branch: keys are read in order, each
\* unread one being supplied (given) or absent, up to the first absent one
RECURSIVE ReadKeys(_, _, _, _)
ReadKeys(pd, keys, given, n) ==
    IF keys = <<>> THEN [pd |-> pd, missing |-> ""]
    ELSE LET k == Head(keys)
             v == IF pd[k].t = "unread"
                  THEN (IF k \in DOMAIN given THEN given[k] ELSE Absent)
                  ELSE pd[k]
             pd1 == [pd EXCEPT ![k] = v]
         IN  IF v.t = "absent" THEN [pd |-> pd1, missing |-> k]
             ELSE ReadKeys(pd1, Tail(keys), given, n)

KeysOf(seq) == {seq[i] : i \in DOMAIN seq}

\* every way the caller may have supplied the unread keys among `keys`
Supplies(pd, keys, n) ==
    LET unread == {k \in KeysOf(keys) : pd[k].t = "unread"}
    IN  UNION {[S -> UNION {HyperChoices(k, n) : k \in S}] : S \in SUBSET unread}

\* lines 202-578, one iteration of the loop
DefineLayer ==
    /\ pc = "layer"
    /\ LET nn == Len(layers)
           entry == IF nn > 0 THEN layers[nn].output_dims ELSE self_input_dims
           dims == LayerInputDims(entry, time_expand[nn + 1])
       IN
       \* layer_sizes[0] is self.input_dims itself: += extends it in place
       /\ self_input_dims' = IF nn = 0 THEN dims ELSE self_input_dims
       /\ IF nn >= Len(layer_types)
          THEN Fail(Exc("IndexError", "layer_types", nn))
               /\ UNCHANGED <<params_dict, layers, time_expand>>
          ELSE LET tag == layer_types[nn + 1] IN
               IF tag \notin RecognisedTypes
               THEN Fail(LayerTypeError(nn))
                    /\ UNCHANGED <<params_dict, layers, time_expand>>
               ELSE \E given \in Supplies(params_dict, RequiredKeys(tag), num_layers) :
                    /\ \A k \in DOMAIN given : given[k] \in HyperChoices(k, num_layers)
                    /\ LET rd == ReadKeys(params_dict, RequiredKeys(tag), given, num_layers)
                           pd == rd.pd
                           size == pd["layer_sizes"].v[nn + 1]
                           shift == IF tag \in ConvTypes
                                    THEN pd["shift_spacing"].v[nn + 1].v[1] ELSE 1
                           width == IF tag \in ConvTypes
                                    THEN pd["conv_filter_widths"].v[nn + 1] ELSE None
                       IN
                       /\ params_dict' = pd
                       /\ IF rd.missing # ""
                          THEN Fail(Exc("KeyError", rd.missing, nn))
                               /\ UNCHANGED <<layers, time_expand>>
                          ELSE /\ layers' = Append(layers,
                                     [type |-> tag,
                                      input_dims |-> dims,
                                      output_dims |-> OutputDims(tag, dims, size, shift),
                                      num_lags |-> IF tag \in TemporalTypes
                                                   THEN time_expand[nn + 1] ELSE 0,
                                      filter_dims |-> FilterDims(tag, dims, width)])
                               /\ time_expand' = CancelTimeExpand(time_expand, nn, tag)
                               /\ pc' = IF nn + 1 = num_layers THEN "finish" ELSE "layer"
                               /\ UNCHANGED err
    /\ UNCHANGED <<scope, input_dims, alias, arg_input_dims, have_params, fld,
                   bare, self_scope, num_layers, layer_types>>
    /\ UNCHANGED <<time_spread, log, batch_size, inputs, received, te,
                   given_input_dims, fit, side, sampler>>

\* lines 187-190
FinishInit ==
    /\ pc = "finish"
    /\ log' = params_dict["log_activations"].v[1]
    /\ pc' = "constructed"
    /\ UNCHANGED <<scope, input_dims, alias, arg_input_dims, have_params, params_dict,
                   fld, bare, self_scope, self_input_dims, num_layers, layer_types, err>>
    /\ UNCHANGED <<layers, time_expand, time_spread, batch_size, inputs, received, te,
                   given_input_dims, fit, side, sampler>>

---------------------------------------------------------------------------
(* FFNetwork.time_embed.  A tensor is a sequence of rows (batch first). *)

\* np.eye(batch_sz, k): ones where column = row + k
Eye(batch_sz, k) ==
    [i \in 1..batch_sz |-> [j \in 1..batch_sz |-> IF j = i + k THEN 1 ELSE 0]]

\* lines 647-649: m[:, lag, :] = np.eye(batch_sz, k=-lag)
Tmat(batch_sz, num_lags) ==
    [b \in 1..batch_sz |-> [lag \in 1..num_lags |-> Eye(batch_sz, -(lag - 1))[b]]]

\* line 655: tf.tensordot(tmat, inputs, axes=[2, 0])
TensorDot(tmat, x) ==
    [b \in DOMAIN tmat |->
        [lag \in DOMAIN tmat[b] |->
            [f \in DOMAIN x[1] |->
                Sum([c \in DOMAIN x |-> tmat[b][lag][c] * x[c][f]])]]]

\* a slip of line 656: the transposition is left out
NoTranspose(t, nfeat) == t

\* line 656: tf.transpose(expanded_inputs, [0, 2, 1])
Transpose021(t, nfeat) ==
    [b \in DOMAIN t |-> [f \in 1..nfeat |-> [lag \in DOMAIN t[b] |-> t[b][lag][f]]]]

RECURSIVE Flatten(_)
Flatten(rows) == IF rows = <<>> THEN <<>> ELSE Head(rows) \o Flatten(Tail(rows))

\* line 657: tf.reshape(expanded_inputs_tr, (batch_sz, -1)), row-major
Reshape2(t) == [b \in DOMAIN t |-> Flatten(t[b])]

\* lines 645-659
TimeEmbed(x, batch_sz, num_lags) ==
    Reshape2(Transpose021(TensorDot(Tmat(batch_sz, num_lags), x), Len(x[1])))

---------------------------------------------------------------------------
(* FFNetwork.build_graph *)

\* the tensor the caller feeds the network: batch_size rows, one column per
\* input unit, every entry different
NetInput(batch, nfeat) == [b \in 1..batch |-> [f \in 1..nfeat |-> 10 * b + f]]

\* the outputs a layer's own build leaves in layers[layer].outputs: one column
\* per output unit, entries that name the layer
LayerOutputs(layer, batch, output_dims) ==
    [b \in 1..batch |-> [f \in 1..Prod(output_dims) |-> 100 * (layer + 1) + 10 * b + f]]

\* a slip of line 598: the input is time-embedded whatever the lag count
BuildInputAlways(x, lag, batch) == TimeEmbed(x, batch, lag)

\* lines 598-603: what layers[layer].build_graph is given
BuildInput(x, lag, batch) == IF lag > 0 THEN TimeEmbed(x, batch, lag) ELSE x

\* line 593: the call, with the caller's tensor and batch size
BuildGraphCall ==
    /\ pc = "constructed"
    /\ \E b \in 1..MaxBatch :
         /\ batch_size' = b
         /\ inputs' = NetInput(b, Prod(SubSeq(self_input_dims, 1, 3)))
    /\ received' = <<>>
    /\ pc' = IF num_layers = 0 THEN "built" ELSE "build"
    /\ UNCHANGED <<scope, input_dims, alias, arg_input_dims, have_params, params_dict,
                   fld, bare, self_scope, self_input_dims, num_layers, layer_types, err>>
    /\ UNCHANGED <<layers, time_expand, time_spread, log, te,
                   given_input_dims, fit, side, sampler>>

\* lines 597-604, one iteration of the loop
BuildLayer ==
    /\ pc = "build"
    /\ LET layer == Len(received)
       IN  /\ received' = Append(received,
                              BuildInput(inputs, time_expand[layer + 1], batch_size))
           /\ inputs' = LayerOutputs(layer, batch_size, layers[layer + 1].output_dims)
           /\ pc' = IF layer + 1 = num_layers THEN "built" ELSE "build"
    /\ UNCHANGED <<scope, input_dims, alias, arg_input_dims, have_params, params_dict,
                   fld, bare, self_scope, self_input_dims, num_layers, layer_types, err>>
    /\ UNCHANGED <<layers, time_expand, time_spread, log, batch_size, te,
                   given_input_dims, fit, side, sampler>>

---------------------------------------------------------------------------
(* The constructor followed by one build pass. *)

\* no build_fit_variable_list call, no SideNetwork, no SamplerNetwork
FitIdle == [stage |-> "idle", list |-> <<>>, locations |-> FALSE, layer |-> 0,
            var_list |-> <<>>]
SideIdle == [stage |-> "idle", params |-> <<>>, all_convolutional |-> FALSE,
             isbinocular |-> FALSE, nonconv_inputs |-> <<>>, input_layer_sizes |-> <<>>,
             nx_ny |-> <<>>, input_dims |-> <<>>, num_space |-> 0, num_units |-> <<>>]
SamplerIdle == [stage |-> "idle", input_dims |-> None,
                locations |-> [t |-> "unset", shape |-> <<>>, data |-> <<>>],
                locations_var |-> [name |-> "undefined", layer |-> -1],
                build_inputs |-> [islist |-> FALSE, items |-> <<>>, embedded |-> 0],
                image |-> [name |-> "undefined", layer |-> -1],
                locs |-> [name |-> "undefined", layer |-> -1]]

TEIdle == [stage |-> "idle", batch_sz |-> 0, num_lags |-> 0, inputs |-> <<>>,
           tmat |-> <<>>, expanded |-> <<>>, out |-> <<>>]

Init ==
    /\ pc = "scope"
    /\ scope \in ScopeChoices
    /\ input_dims \in InputDimsChoices
    /\ arg_input_dims = input_dims
    /\ given_input_dims = input_dims
    /\ alias = "arg"
    /\ have_params \in BOOLEAN
    /\ params_dict = [k \in Keys |-> Unread]
    /\ fld = 1
    /\ bare = TRUE
    /\ self_scope = None
    /\ self_input_dims = <<>>
    /\ num_layers = 0
    /\ layer_types = <<>>
    /\ layers = <<>>
    /\ time_expand = <<>>
    /\ time_spread = 0
    /\ log = FALSE
    /\ err = NoErr
    /\ batch_size = 0
    /\ inputs = <<>>
    /\ received = <<>>
    /\ te = TEIdle
    /\ fit = FitIdle
    /\ side = SideIdle
    /\ sampler = SamplerIdle

Next ==
    \/ CheckScope
    \/ CheckParamsDict
    \/ ResolveInputDims
    \/ FormatInputDims
    \/ CheckLayerSizes
    \/ BroadcastField
    \/ DefaultRegInitializers
    \/ DefaultTimeExpand
    \/ DefineNetworkStart
    \/ DefineLayer
    \/ FinishInit
    \/ BuildGraphCall
    \/ BuildLayer

Spec == Init /\ [][Next]_vars

---------------------------------------------------------------------------
(* FFNetwork.time_embed on its own, statement by statement, for every small *)
(* input.                                                                   *)

TEVals == {1, 2}

TEInputs(batch, nfeat) == [1..batch -> [1..nfeat -> TEVals]]

ctorVarsButPc ==
    <<scope, input_dims, alias, arg_input_dims, have_params, params_dict, fld, bare,
      self_scope, self_input_dims, num_layers, layer_types, layers, time_expand,
      time_spread, log, err, batch_size, inputs, received>>

ctorVarsButErrPc ==
    <<scope, input_dims, alias, arg_input_dims, have_params, params_dict, fld, bare,
      self_scope, self_input_dims, num_layers, layer_types, layers, time_expand,
      time_spread, log, batch_size, inputs, received>>

ctorVars == <<pc, scope, input_dims, alias, arg_input_dims, have_params, params_dict,
              fld, bare, self_scope, self_input_dims, num_layers, layer_types, layers,
              time_expand, time_spread, log, err, batch_size, inputs, received,
              given_input_dims, fit, side, sampler>>

InitTE ==
    /\ pc = "idle"
    /\ scope = None
    /\ input_dims = None
    /\ arg_input_dims = None
    /\ given_input_dims = None
    /\ alias = "arg"
    /\ have_params = FALSE
    /\ params_dict = [k \in Keys |-> Unread]
    /\ fld = 1
    /\ bare = TRUE
    /\ self_scope = None
    /\ self_input_dims = <<>>
    /\ num_layers = 0
    /\ layer_types = <<>>
    /\ layers = <<>>
    /\ time_expand = <<>>
    /\ time_spread = 0
    /\ log = FALSE
    /\ err = NoErr
    /\ batch_size = 0
    /\ inputs = <<>>
    /\ received = <<>>
    /\ fit = FitIdle
    /\ side = SideIdle
    /\ sampler = SamplerIdle
    /\ \E b \in 1..MaxTEBatch, f \in 1..MaxTEFeat, l \in 1..MaxTELags :
         \E x \in TEInputs(b, f) :
            te = [TEIdle EXCEPT !.stage = "call", !.batch_sz = b, !.num_lags = l,
                                !.inputs = x]

\* lines 647-653
TEMakeTmat ==
    /\ te.stage = "call"
    /\ te' = [te EXCEPT !.stage = "tmat", !.tmat = Tmat(te.batch_sz, te.num_lags)]
    /\ UNCHANGED ctorVars

\* line 655
TETensorDot ==
    /\ te.stage = "tmat"
    /\ te' = [te EXCEPT !.stage = "dot", !.expanded = TensorDot(te.tmat, te.inputs)]
    /\ UNCHANGED ctorVars

\* line 656
TETranspose ==
    /\ te.stage = "dot"
    /\ te' = [te EXCEPT !.stage = "transposed",
                        !.expanded = Transpose021(te.expanded, Len(te.inputs[1]))]
    /\ UNCHANGED ctorVars

\* lines 657-659
TEReshape ==
    /\ te.stage = "transposed"
    /\ te' = [te EXCEPT !.stage = "done", !.out = Reshape2(te.expanded)]
    /\ UNCHANGED ctorVars

NextTE == TEMakeTmat \/ TETensorDot \/ TETranspose \/ TEReshape

SpecTimeEmbed == InitTE /\ [][NextTE]_vars

---------------------------------------------------------------------------
(* The constructor and a build pass for one-layer convolutional networks:   *)
(* the caller's record is known from the start, with an explicit filter     *)
(* width for the layer.                                                     *)

\* a record that holds nothing
NoKeys == [k \in Keys |-> Absent]

\* the parts of Init that do not depend on the caller's arguments
Fresh ==
    /\ alias = "arg"
    /\ fld = 1
    /\ bare = TRUE
    /\ self_scope = None
    /\ self_input_dims = <<>>
    /\ num_layers = 0
    /\ layer_types = <<>>
    /\ layers = <<>>
    /\ time_expand = <<>>
    /\ time_spread = 0
    /\ log = FALSE
    /\ err = NoErr
    /\ batch_size = 0
    /\ inputs = <<>>
    /\ received = <<>>
    /\ te = TEIdle
    /\ fit = FitIdle

\* layer inputs: 1-D (height 1) and 2-D space, without and with a lag dimension
ConvInputDimsChoices ==
    {ListV(<<2, 3, 1>>), ListV(<<2, 3, 2>>), ListV(<<2, 3, 1, 2>>), ListV(<<2, 3, 2, 2>>)}

ConvWidthChoices == {2, 3}

ConvRecord(tag, lag, w) ==
    [NoKeys EXCEPT !["layer_sizes"] = ListV(<<2>>),
                   !["layer_types"] = ListV(<<tag>>),
                   !["time_expand"] = ListV(<<lag>>),
                   !["conv_filter_widths"] = ListV(<<IntV(w)>>),
                   !["shift_spacing"] = ListV(<<IntV(1)>>),
                   !["xy_out"] = ListV(<<None>>),
                   !["normalize_weights"] = ListV(<<None>>)]

InitConv ==
    /\ Fresh
    /\ pc = "scope"
    /\ scope = StrV("net")
    /\ input_dims \in ConvInputDimsChoices
    /\ arg_input_dims = input_dims
    /\ given_input_dims = input_dims
    /\ have_params = TRUE
    /\ \E tag \in ConvTypes, lag \in LagChoices, w \in ConvWidthChoices :
          params_dict = ConvRecord(tag, lag, w)
    /\ side = SideIdle
    /\ sampler = SamplerIdle

SpecConv == InitConv /\ [][Next]_vars

---------------------------------------------------------------------------
(* SideNetwork.__init__ *)

\* line 707
SideConvTypes == {"conv", "convsep", "gabor", "biconv", "convLNL"}

\* a reading of lines 714-726 that looks at the first upstream layer only
AllConvolutionalFirstOnly(types) == types[1] \in SideConvTypes

\* lines 712-726: the first upstream layer is convolutional and so is every
\* other one
AllConvolutional(types) ==
    /\ types[1] \in SideConvTypes
    /\ \A nn \in 1..Len(types) : types[nn] \in SideConvTypes

\* lines 708 and 714-722: some layer is 'biconv', seen only when the first
\* upstream layer is convolutional
IsBinocular(types) ==
    /\ types[1] \in SideConvTypes
    /\ \E nn \in 1..Len(types) : types[nn] = "biconv"

\* lines 713-729
NonconvInputs(sizes, types, dims) ==
    IF types[1] \in SideConvTypes
    THEN [nn \in 1..Len(sizes) |->
            IF types[nn] \in SideConvTypes
            THEN sizes[nn] * dims[2] * dims[3] * (IF types[nn] = "biconv" THEN 2 ELSE 1)
            ELSE sizes[nn]]
    ELSE sizes

\* a reading of lines 736-740 that doubles the 'biconv' layers and no others
BinocularSizesBiconvOnly(sizes, types) ==
    [nn \in 1..Len(sizes) |-> IF types[nn] = "biconv" THEN 2 * sizes[nn] ELSE sizes[nn]]

\* lines 736-740: with a binocular upstream network, the size of layer 0 is
\* doubled when layer 0 is 'biconv'; otherwise the sizes of layers 0 and 1
\* are doubled when layer 1 is 'biconv'
BinocularSizes(sizes, types) ==
    IF types[1] = "biconv"
    THEN [sizes EXCEPT ![1] = 2 * sizes[1]]
    ELSE IF types[2] = "biconv"
    THEN [sizes EXCEPT ![1] = 2 * sizes[1], ![2] = 2 * sizes[2]]
    ELSE sizes

\* lines 710 and 733-740: input_layer_sizes as line 743 finds it
InputLayerSizes(sizes, types) ==
    IF AllConvolutional(types) /\ IsBinocular(types)
    THEN BinocularSizes(sizes, types)
    ELSE sizes

\* lines 732-734 and 745; int(nx / 2) rounds down
NxNy(types, dims) ==
    IF AllConvolutional(types)
    THEN LET nx_ny == SubSeq(dims, 2, Len(dims))
         IN  IF IsBinocular(types) THEN [nx_ny EXCEPT ![1] = nx_ny[1] \div 2] ELSE nx_ny
    ELSE <<1, 1>>

\* the derivation the comments of lines 741 and 746 keep: one column of the
\* largest size for each upstream layer
SideInputDimsLargest(sizes, types, dims) ==
    IF AllConvolutional(types)
    THEN <<MaxOf(InputLayerSizes(sizes, types)) * Len(sizes),
           NxNy(types, dims)[1], NxNy(types, dims)[2]>>
    ELSE <<Len(sizes), MaxOf(NonconvInputs(sizes, types, dims)), 1>>

\* lines 743 and 747
SideInputDims(sizes, types, dims) ==
    IF AllConvolutional(types)
    THEN <<Sum(InputLayerSizes(sizes, types)), NxNy(types, dims)[1], NxNy(types, dims)[2]>>
    ELSE <<Sum(NonconvInputs(sizes, types, dims)), 1, 1>>

\* lines 707-752, up to the call of FFNetwork.__init__ with the derived
\* input_dims
SideResolve ==
    /\ pc = "side"
    /\ LET sizes == side.params.layer_sizes
           types == side.params.layer_types
           dims == side.params.input_dims
       IN  /\ side' = [side EXCEPT
                         !.stage = "super",
                         !.all_convolutional = AllConvolutional(types),
                         !.isbinocular = IsBinocular(types),
                         !.nonconv_inputs = NonconvInputs(sizes, types, dims),
                         !.input_layer_sizes = InputLayerSizes(sizes, types),
                         !.nx_ny = NxNy(types, dims),
                         !.input_dims = SideInputDims(sizes, types, dims)]
           /\ input_dims' = ListV(SideInputDims(sizes, types, dims))
    /\ arg_input_dims' = input_dims'
    /\ given_input_dims' = input_dims'
    /\ pc' = "scope"
    /\ UNCHANGED <<scope, alias, have_params, params_dict, fld, bare, self_scope,
                   self_input_dims, num_layers, layer_types, err>>
    /\ UNCHANGED <<layers, time_expand, time_spread, log, batch_size, inputs, received,
                   te, fit, sampler>>

\* lines 754-758, after FFNetwork.__init__ has returned
SideFinish ==
    /\ pc = "constructed"
    /\ side.stage = "super"
    /\ side' = [side EXCEPT
                  !.stage = "ready",
                  !.num_space = side.nx_ny[1] * side.nx_ny[2],
                  !.num_units = IF side.all_convolutional
                                THEN side.input_layer_sizes ELSE side.nonconv_inputs]
    /\ pc' = "side_ready"
    /\ UNCHANGED ctorVarsButPc
    /\ UNCHANGED <<te, given_input_dims, fit, sampler>>

---------------------------------------------------------------------------
(* SideNetwork.build_graph.  The tensors being assembled are kept flat, in  *)
(* row-major order; a reshape changes how the same entries are indexed.     *)

\* the upstream network: the output_dims of its layers, each layer taking
\* the output_dims of the one before it (lines 205-206)
RECURSIVE UpstreamOutputDims(_, _, _)
UpstreamOutputDims(sizes, types, dims) ==
    IF sizes = <<>> THEN <<>>
    ELSE LET od == OutputDims(Head(types), dims, Head(sizes), 1)
         IN  <<od>> \o UpstreamOutputDims(Tail(sizes), Tail(types), od)

\* input_network.layers[nn].outputs for a batch: one row per batch element,
\* one column per output unit, every entry different
UpstreamOutputs(nn, batch, output_dims) ==
    [b \in 1..batch |-> [f \in 1..Prod(output_dims) |-> 1000 * (nn + 1) + 100 * b + f]]

\* tf.reshape(x, [-1, a, b]): possible when the entries divide into a * b
CanReshape(data, a, b) == a * b > 0 /\ Len(data) % (a * b) = 0

\* a reading of lines 783-790 that concatenates left_post and right_post
\* along the spatial axis: shape [n, 1, 2 * num_space, native_filters]
ResliceAlongSpace(data, native_space, native_filters, num_space) ==
    LET n == Len(data) \div (native_space * native_filters)
        at(i, j, k) == data[(i * native_space + j) * native_filters + k + 1]
    IN  [q \in 1..(n * 2 * num_space * native_filters) |->
            at((q - 1) \div (2 * num_space * native_filters),
               ((q - 1) \div native_filters) % (2 * num_space),
               (q - 1) % native_filters)]

\* lines 783-790: the entries of tmp, of shape [n, 1, native_space,
\* native_filters], as left_post and right_post concatenated along the last
\* axis: shape [n, 1, num_space, 2 * native_filters]
Reslice(data, native_space, native_filters, num_space) ==
    LET n == Len(data) \div (native_space * native_filters)
        at(i, j, k) == data[(i * native_space + j) * native_filters + k + 1]
    IN  [q \in 1..(n * num_space * 2 * native_filters) |->
            LET k == (q - 1) % (2 * native_filters)
                j == ((q - 1) \div (2 * native_filters)) % num_space
                i == (q - 1) \div (2 * native_filters * num_space)
            IN  IF k < native_filters THEN at(i, j, k)
                ELSE at(i, j + num_space, k - native_filters)]

\* lines 775-791: new_slice for upstream layer input_nn, of shape
\* [n, num_space, num_units[input_nn]]; ok is FALSE when a reshape or a slice
\* cannot be done
NewSlice(outputs, output_dims, num_space, units) ==
    LET data == Flatten(outputs)
        native_space == Prod(SubSeq(output_dims, 2, 3))
        native_filters == output_dims[1]
    IN  IF num_space = 1 \/ num_space = native_space
        THEN [ok |-> CanReshape(data, num_space, units), units |-> units, data |-> data]
        ELSE IF ~(CanReshape(data, native_space, native_filters)
                  /\ 2 * num_space <= native_space
                  /\ (num_space * 2 * native_filters) % (num_space * units) = 0)
        THEN [ok |-> FALSE, units |-> units, data |-> <<>>]
        ELSE [ok |-> TRUE, units |-> units,
              data |-> Reslice(data, native_space, native_filters, num_space)]

\* lines 793-796: tf.concat([inputs_raw, new_slice], 2) of tensors of shapes
\* [n, num_space, a] and [n, num_space, b]
Concat2(x, a, y, b) ==
    LET rows == Len(x) \div a
    IN  [q \in 1..(rows * (a + b)) |->
            LET k == (q - 1) % (a + b)
                r == (q - 1) \div (a + b)
            IN  IF k < a THEN x[r * a + k + 1] ELSE y[r * b + (k - a) + 1]]

\* lines 773-796: inputs_raw after the slices of upstream layers 0 .. nn - 1
RECURSIVE InputsRaw(_, _, _, _, _)
InputsRaw(nn, batch, ods, num_space, num_units) ==
    LET sl == NewSlice(UpstreamOutputs(nn - 1, batch, ods[nn]), ods[nn],
                       num_space, num_units[nn])
    IN  IF nn = 1 THEN sl
        ELSE LET raw == InputsRaw(nn - 1, batch, ods, num_space, num_units)
             IN  IF ~(raw.ok /\ sl.ok
                      /\ Len(raw.data) * sl.units = Len(sl.data) * raw.units)
                 THEN [ok |-> FALSE, units |-> 0, data |-> <<>>]
                 ELSE [ok |-> TRUE, units |-> raw.units + sl.units,
                       data |-> Concat2(raw.data, raw.units, sl.data, sl.units)]

\* line 799: tf.reshape(inputs_raw, [-1, width])
RowsOf(data, width) ==
    [r \in 1..(Len(data) \div width) |-> SubSeq(data, (r - 1) * width + 1, r * width)]

\* lines 764-799: the call, with the upstream network and a batch size; the
\* assembled tensor becomes the running input
SideBuildGraphCall ==
    /\ pc = "side_ready"
    /\ \E b \in 1..MaxBatch :
         LET ods == UpstreamOutputDims(side.params.layer_sizes, side.params.layer_types,
                                       side.params.input_dims)
             raw == InputsRaw(Len(side.num_units), b, ods, side.num_space, side.num_units)
             width == Sum(side.num_units) * side.num_space
         IN  /\ batch_size' = b
             /\ IF raw.ok /\ width > 0 /\ Len(raw.data) % width = 0
                THEN /\ inputs' = RowsOf(raw.data, width)
                     /\ pc' = "side_build"
                     /\ UNCHANGED err
                ELSE /\ inputs' = <<>>
                     /\ Fail(Exc("ValueError", "reshape", -1))
    /\ received' = <<>>
    /\ UNCHANGED <<scope, input_dims, alias, arg_input_dims, have_params, params_dict,
                   fld, bare, self_scope, self_input_dims, num_layers, layer_types>>
    /\ UNCHANGED <<layers, time_expand, time_spread, log, te, given_input_dims, fit,
                   side, sampler>>

\* lines 803-805, one iteration of the loop: the layer is given the running
\* input as it is
SideBuildLayer ==
    /\ pc = "side_build"
    /\ LET layer == Len(received)
       IN  /\ received' = Append(received, inputs)
           /\ inputs' = LayerOutputs(layer, batch_size, layers[layer + 1].output_dims)
           /\ pc' = IF layer + 1 = num_layers THEN "side_built" ELSE "side_build"
    /\ UNCHANGED <<scope, input_dims, alias, arg_input_dims, have_params, params_dict,
                   fld, bare, self_scope, self_input_dims, num_layers, layer_types, err>>
    /\ UNCHANGED <<layers, time_expand, time_spread, log, batch_size, te,
                   given_input_dims, fit, side, sampler>>

---------------------------------------------------------------------------
(* A SideNetwork over an upstream network: construction and one build pass. *)

UpstreamTypeChoices == {"conv", "biconv", "normal"}

UpstreamInputDimsChoices == {<<1, 4, 1>>, <<1, 2, 2>>, <<1, 3, 1>>}

\* the upstream record: one declared size per layer (layer nn has size nn + 2)
UpstreamChoices ==
    {[layer_sizes |-> [i \in 1..n |-> i + 1], layer_types |-> types, input_dims |-> dims] :
        n \in 1..MaxLayers, types \in UNION {SeqsOfLen(UpstreamTypeChoices, k) : k \in 1..MaxLayers},
        dims \in UpstreamInputDimsChoices}

\* the SideNetwork's own record: dense layers, a lag count for each
SideRecord(n, lags) ==
    [NoKeys EXCEPT !["layer_sizes"] = ListV([i \in 1..n |-> i + 1]),
                   !["layer_types"] = ListV(Rep("normal", n)),
                   !["time_expand"] = ListV(lags),
                   !["normalize_weights"] = ListV(Rep(None, n))]

InitSide ==
    /\ Fresh
    /\ pc = "side"
    /\ scope = StrV("net")
    /\ input_dims = None
    /\ arg_input_dims = None
    /\ given_input_dims = None
    /\ have_params = TRUE
    /\ \E n \in 1..MaxLayers : \E lags \in SeqsOfLen(LagChoices, n) :
          params_dict = SideRecord(n, lags)
    /\ \E up \in UpstreamChoices :
          /\ Len(up.layer_types) = Len(up.layer_sizes)
          /\ side = [SideIdle EXCEPT !.stage = "call", !.params = up]
    /\ sampler = SamplerIdle

NextSide ==
    \/ SideResolve
    \/ CheckScope
    \/ CheckParamsDict
    \/ ResolveInputDims
    \/ FormatInputDims
    \/ CheckLayerSizes
    \/ BroadcastField
    \/ DefaultRegInitializers
    \/ DefaultTimeExpand
    \/ DefineNetworkStart
    \/ DefineLayer
    \/ FinishInit
    \/ SideFinish
    \/ SideBuildGraphCall
    \/ SideBuildLayer

SpecSide == InitSide /\ [][NextSide]_vars

---------------------------------------------------------------------------
(* FFNetwork.build_fit_variable_list *)

\* self.layers[layer].weights_var and biases_var: the handles of a layer's
\* own variables
WeightsVar(layer) == [var |-> "weights", layer |-> layer]
BiasesVar(layer) == [var |-> "biases", layer |-> layer]

\* a slip of lines 586-589: the bias handle is appended first
FitLayerVarsBiasFirst(sel, layer) ==
    (IF sel.biases THEN <<BiasesVar(layer)>> ELSE <<>>)
    \o (IF sel.weights THEN <<WeightsVar(layer)>> ELSE <<>>)

\* lines 586-589: what one iteration appends to var_list
FitLayerVars(sel, layer) ==
    (IF sel.weights THEN <<WeightsVar(layer)>> ELSE <<>>)
    \o (IF sel.biases THEN <<BiasesVar(layer)>> ELSE <<>>)

\* lines 584-590: var_list after the iterations for layers 0 .. n - 1
RECURSIVE FitVarList(_, _)
FitVarList(list, n) ==
    IF n = 0 THEN <<>> ELSE FitVarList(list, n - 1) \o FitLayerVars(list[n], n - 1)

\* the selection of one layer: its two flags
Selections == [weights : BOOLEAN, biases : BOOLEAN]

\* lines 581-584: the call, with one selection per layer
FitCall ==
    /\ pc = "constructed"
    /\ fit.stage = "idle"
    /\ \E list \in SeqsOfLen(Selections, num_layers) :
          fit' = [FitIdle EXCEPT !.stage = "loop", !.list = list]
    /\ pc' = "fit"
    /\ UNCHANGED ctorVarsButPc
    /\ UNCHANGED <<te, given_input_dims, side, sampler>>

\* lines 585-590, one iteration of the loop; the list is returned after the
\* last one
FitLayer ==
    /\ pc = "fit"
    /\ fit.stage = "loop"
    /\ fit' = [fit EXCEPT
                 !.var_list = fit.var_list \o FitLayerVars(fit.list[fit.layer + 1], fit.layer),
                 !.layer = fit.layer + 1,
                 !.stage = IF fit.layer + 1 = num_layers THEN "returned" ELSE "loop"]
    /\ pc' = IF fit.layer + 1 = num_layers THEN "constructed" ELSE "fit"
    /\ UNCHANGED ctorVarsButPc
    /\ UNCHANGED <<te, given_input_dims, side, sampler>>

\* the caller's record of a dense network with n layers
DenseRecord(n) ==
    [NoKeys EXCEPT !["layer_sizes"] = ListV([i \in 1..n |-> i + 1]),
                   !["layer_types"] = ListV(Rep("normal", n)),
                   !["normalize_weights"] = ListV(Rep(None, n))]

InitFit ==
    /\ Fresh
    /\ pc = "scope"
    /\ scope = StrV("net")
    /\ input_dims \in {IntV(4), ListV(<<1, 4, 1>>)}
    /\ arg_input_dims = input_dims
    /\ given_input_dims = input_dims
    /\ have_params = TRUE
    /\ \E n \in 1..MaxLayers : params_dict = DenseRecord(n)
    /\ side = SideIdle
    /\ sampler = SamplerIdle

NextFit ==
    \/ CheckScope
    \/ CheckParamsDict
    \/ ResolveInputDims
    \/ FormatInputDims
    \/ CheckLayerSizes
    \/ BroadcastField
    \/ DefaultRegInitializers
    \/ DefaultTimeExpand
    \/ DefineNetworkStart
    \/ DefineLayer
    \/ FinishInit
    \/ FitCall
    \/ FitLayer

SpecFit == InitFit /\ [][NextFit]_vars

---------------------------------------------------------------------------
(* SamplerNetwork.  Tensors and variables of the graph are named, not       *)
(* computed: the input resolution and the loop only pass them on.           *)

\* a tensor or variable of the graph; layer is the index of the layer whose
\* outputs it is, -1 for anything else
Tn(name, layer) == [name |-> name, layer |-> layer]
Undefined == Tn("undefined", -1)   \* an attribute that was never assigned
PyNone == Tn("None", -1)
Image == Tn("image", -1)
ExplicitLocations == Tn("explicit", -1)
OwnedVariable == Tn("owned", -1)   \* the tf.Variable of lines 856-859

\* what build_graph is given or a layer is given: a tensor, or a list
Single(x) == [islist |-> FALSE, items |-> <<x>>, embedded |-> 0]
ListOf(xs) == [islist |-> TRUE, items |-> xs, embedded |-> 0]

\* a numpy array of shape location_dims
Array(shape, data) == [t |-> "array", shape |-> shape, data |-> data]
NoArray == [t |-> "none", shape |-> <<>>, data |-> <<>>]

\* np.random.normal(size=location_dims): any values
RandomArrays(shape) == {Array(shape, d) : d \in SeqsOfLen({-1, 1}, Prod(shape))}

\* lines 810-822: FFNetwork.__init__ is called with input_dims=None whatever
\* the caller passed
SamplerSuper ==
    /\ pc = "sampler"
    /\ sampler' = [sampler EXCEPT !.stage = "super"]
    /\ input_dims' = None
    /\ arg_input_dims' = None
    /\ given_input_dims' = None
    /\ pc' = "scope"
    /\ UNCHANGED <<scope, alias, have_params, params_dict, fld, bare, self_scope,
                   self_input_dims, num_layers, layer_types, err>>
    /\ UNCHANGED <<layers, time_expand, time_spread, log, batch_size, inputs, received,
                   te, fit, side>>

\* line 825: no upstream location network is named
NoLocationNet == params_dict["locationnet_n"].t \in {"absent", "none"}

\* a reading of lines 831-841 in which an unknown name draws as 'normal' does
InitLocationsAnyName(strategy, shape) ==
    IF strategy = "zeros" THEN {Array(shape, Rep(0, Prod(shape)))}
    ELSE RandomArrays(shape)

\* lines 831-841: the array of a strategy, or none when the name is unknown
InitLocations(strategy, shape) ==
    CASE strategy \in {"trunc_normal", "normal"} -> RandomArrays(shape)
      [] strategy = "zeros" -> {Array(shape, Rep(0, Prod(shape)))}
      [] OTHER -> {}

\* lines 824-843, after FFNetwork.__init__ has returned; the assert of line
\* 829 is skipped when assertions are off, and line 831 then raises KeyError
SamplerFinish ==
    /\ pc = "constructed"
    /\ sampler.stage = "super"
    /\ IF ~NoLocationNet
       THEN /\ sampler' = [sampler EXCEPT !.stage = "ready", !.locations = NoArray]
            /\ pc' = "sampler_ready"
            /\ UNCHANGED err
       ELSE IF params_dict["num_locations"].t = "absent"
       THEN /\ sampler' = [sampler EXCEPT !.stage = "failed", !.locations = NoArray]
            /\ \/ Fail(Exc("AssertionError", "Must specify num_locations", -1))
               \/ Fail(Exc("KeyError", "num_locations", -1))
       ELSE LET location_dims == <<1, 2 * params_dict["num_locations"].v[1]>>
                strategy == DefaultIfAbsent(params_dict["location_initializer"],
                                            StrV("normal")).v[1]
            IN  IF InitLocations(strategy, location_dims) = {}
                THEN /\ sampler' = [sampler EXCEPT !.stage = "failed", !.locations = NoArray]
                     /\ Fail(Exc("ValueError", "Invalid location_initializer", -1))
                ELSE /\ \E a \in InitLocations(strategy, location_dims) :
                          sampler' = [sampler EXCEPT !.stage = "ready", !.locations = a]
                     /\ pc' = "sampler_ready"
                     /\ UNCHANGED err
    /\ UNCHANGED ctorVarsButErrPc
    /\ UNCHANGED <<te, given_input_dims, fit, side>>

\* lines 848-859: self.locations_var after _define_sampler_variables
DefineSamplerVariables(locations, locations_var) ==
    IF locations.t = "array" THEN OwnedVariable ELSE locations_var

\* a reading of lines 878-891 that accepts a tensor or a two-element list only
AcceptedInputPairOnly(x) == ~x.islist \/ Len(x.items) = 2

\* lines 878-891: the inputs that do not reach the raise of line 891
AcceptedInput(x) == ~x.islist \/ Len(x.items) \in {1, 2}

\* lines 878-889: [image, locations, self.locations_var] after the input
\* resolution; reading self.locations_var when it was never assigned raises
\* AttributeError
ResolveInputs(x, locations_var) ==
    IF x.islist /\ Len(x.items) = 2 /\ x.items[2] # PyNone
    THEN [ok |-> TRUE, image |-> x.items[1], locs |-> x.items[2],
          locations_var |-> x.items[2]]
    ELSE [ok |-> locations_var # Undefined, image |-> x.items[1],
          locs |-> locations_var, locations_var |-> locations_var]

\* what a caller passes as inputs
SamplerInputChoices ==
    {Single(Image), ListOf(<<>>), ListOf(<<Image>>), ListOf(<<Image, PyNone>>),
     ListOf(<<Image, ExplicitLocations>>),
     ListOf(<<Image, ExplicitLocations, Tn("extra", -1)>>)}

\* lines 873-891: the call and the input resolution
SamplerBuildGraphCall ==
    /\ pc = "sampler_ready"
    /\ \E b \in 1..MaxBatch, x \in SamplerInputChoices :
         LET lv == DefineSamplerVariables(sampler.locations, sampler.locations_var)
         IN  /\ batch_size' = b
             /\ inputs' = x
             /\ IF ~AcceptedInput(x)
                THEN /\ sampler' = [sampler EXCEPT !.build_inputs = x, !.locations_var = lv]
                     /\ Fail(Exc("TypeError", "Incorrect input shape in SamplerNetwork.", -1))
                ELSE LET r == ResolveInputs(x, lv)
                     IN  IF ~r.ok
                         THEN /\ sampler' = [sampler EXCEPT !.build_inputs = x,
                                                             !.locations_var = lv]
                              /\ Fail(Exc("AttributeError", "locations_var", -1))
                         ELSE /\ sampler' = [sampler EXCEPT
                                               !.build_inputs = x,
                                               !.locations_var = r.locations_var,
                                               !.image = r.image,
                                               !.locs = r.locs]
                              /\ pc' = "sampler_build"
                              /\ UNCHANGED err
    /\ received' = <<>>
    /\ UNCHANGED <<scope, input_dims, alias, arg_input_dims, have_params, params_dict,
                   fld, bare, self_scope, self_input_dims, num_layers, layer_types>>
    /\ UNCHANGED <<layers, time_expand, time_spread, log, te, given_input_dims, fit, side>>

\* lines 897-904: time_embed is applied to what the layer is about to be given
SamplerLayerInput(x, lag) == IF lag > 0 THEN [x EXCEPT !.embedded = lag] ELSE x

\* lines 894-905, one iteration of the loop
SamplerBuildLayer ==
    /\ pc = "sampler_build"
    /\ LET layer == Len(received)
           cur == IF layers[layer + 1].type = "grid_sample"
                  THEN ListOf(<<sampler.image, sampler.locs>>) ELSE inputs
       IN  /\ received' = Append(received, SamplerLayerInput(cur, time_expand[layer + 1]))
           /\ inputs' = Single(Tn("outputs", layer))
           /\ pc' = IF layer + 1 = num_layers THEN "sampler_built" ELSE "sampler_build"
    /\ UNCHANGED <<scope, input_dims, alias, arg_input_dims, have_params, params_dict,
                   fld, bare, self_scope, self_input_dims, num_layers, layer_types, err>>
    /\ UNCHANGED <<layers, time_expand, time_spread, log, batch_size, te,
                   given_input_dims, fit, side, sampler>>

\* the selections a caller passes after a build: every flag of every layer
\* set alike
UniformSelections(n) ==
    {Rep([weights |-> f, biases |-> f], n) : f \in BOOLEAN}

\* lines 861-870: the list of FFNetwork.build_fit_variable_list, followed by
\* self.locations_var when fit_parameter_list[0]['locations'] is true
SamplerFitVariableList ==
    /\ pc = "sampler_built"
    /\ fit.stage = "idle"
    /\ \E list \in UniformSelections(num_layers), loc \in BOOLEAN :
          IF loc /\ sampler.locations_var = Undefined
          THEN /\ fit' = [FitIdle EXCEPT !.stage = "raised", !.list = list,
                                         !.locations = loc]
               /\ Fail(Exc("AttributeError", "locations_var", -1))
          ELSE /\ fit' = [FitIdle EXCEPT
                            !.stage = "returned", !.list = list, !.locations = loc,
                            !.layer = num_layers,
                            !.var_list = FitVarList(list, num_layers)
                                         \o (IF loc THEN <<sampler.locations_var>> ELSE <<>>)]
               /\ UNCHANGED <<pc, err>>
    /\ UNCHANGED ctorVarsButErrPc
    /\ UNCHANGED <<te, given_input_dims, side, sampler>>

---------------------------------------------------------------------------
(* A SamplerNetwork: construction, one build pass and a later               *)
(* build_fit_variable_list.                                                 *)

SamplerTypesChoices ==
    UNION {SeqsOfLen({"grid_sample", "normal"}, n) : n \in 1..MaxLayers}

SamplerRecord(types, dims, locnet, num, strategy) ==
    [NoKeys EXCEPT !["layer_sizes"] = ListV([i \in 1..Len(types) |-> i + 1]),
                   !["layer_types"] = ListV(types),
                   !["normalize_weights"] = ListV(Rep(None, Len(types))),
                   !["input_dims"] = dims,
                   !["locationnet_n"] = locnet,
                   !["num_locations"] = num,
                   !["location_initializer"] = strategy]

InitSampler ==
    /\ Fresh
    /\ pc = "sampler"
    /\ scope = StrV("net")
    /\ input_dims = None
    /\ arg_input_dims = None
    /\ given_input_dims = None
    /\ have_params = TRUE
    /\ \E types \in SamplerTypesChoices,
          dims \in {Absent, ListV(<<1, 4, 1>>)},
          locnet \in {Absent, None, IntV(0)},
          num \in {Absent, IntV(1), IntV(2)},
          strategy \in {Absent, StrV("normal"), StrV("trunc_normal"), StrV("zeros"),
                        StrV("uniform")} :
          params_dict = SamplerRecord(types, dims, locnet, num, strategy)
    /\ side = SideIdle
    /\ \E d \in {None, ListV(<<1, 4, 1>>)} :
          sampler = [SamplerIdle EXCEPT !.stage = "call", !.input_dims = d]

NextSampler ==
    \/ SamplerSuper
    \/ CheckScope
    \/ CheckParamsDict
    \/ ResolveInputDims
    \/ FormatInputDims
    \/ CheckLayerSizes
    \/ BroadcastField
    \/ DefaultRegInitializers
    \/ DefaultTimeExpand
    \/ DefineNetworkStart
    \/ DefineLayer
    \/ FinishInit
    \/ SamplerFinish
    \/ SamplerBuildGraphCall
    \/ SamplerBuildLayer
    \/ SamplerFitVariableList

SpecSampler == InitSampler /\ [][NextSampler]_vars

---------------------------------------------------------------------------
(* The error kinds of the specification, as the raise sites of the code.   *)

\* lines 108, 112, 117, 128
MissingConfiguration(e) ==
    /\ e.class = "TypeError"
    /\ e.msg \in {"Must specify network scope", "Must specify parameters dictionary.",
                  "Must specify input dimensions.", "Must specify layer_sizes."}

\* lines 142, 150, 158, 168, 175 and 578
InvalidConfiguration(e) ==
    \/ /\ e.class = "ValueError"
       /\ e.msg \in {BroadcastFields[i].msg : i \in DOMAIN BroadcastFields}
    \/ /\ e.class = "TypeError"
       /\ e.msg = "Layer type %i not defined."

\* lines 829 and 831: num_locations is required when no location network is
\* named
SamplerMissingConfiguration(e) ==
    \/ e = Exc("AssertionError", "Must specify num_locations", -1)
    \/ e = Exc("KeyError", "num_locations", -1)

\* lines 840 and 891
SamplerInvalidConfiguration(e) ==
    \/ e = Exc("ValueError", "Invalid location_initializer", -1)
    \/ e = Exc("TypeError", "Incorrect input shape in SamplerNetwork.", -1)

\* the constructor has returned a network
Constructed == pc \in {"constructed", "build", "built"}

\* the constructor has returned or raised
Returned == Constructed \/ pc = "failed"

\* the lag count declared for layer nn (1-based), from the record's
\* time_expand, missing trailing entries counting as 0
DeclaredLag(nn) ==
    LET tx == params_dict["time_expand"].v
    IN  IF nn <= Len(tx) THEN tx[nn] ELSE 0

---------------------------------------------------------------------------
(* Claims *)

\* C1: after construction, layer 0 was handed the network's three-or-more
\* element input shape (line 124) and every later layer the output_dims of
\* the layer before it, each followed by one trailing element, the lag count
\* declared for that layer, when that count is positive, and by nothing
\* when it is 0.
C1_LayerInputChain ==
    Constructed =>
      /\ Len(layers) = num_layers
      /\ \A i \in 1..Len(layers) :
           LET entry == IF i = 1 THEN input_dims.v ELSE layers[i - 1].output_dims
               lag == DeclaredLag(i)
           IN  /\ lag > 0 => layers[i].input_dims = Append(entry, lag)
               /\ lag = 0 => layers[i].input_dims = entry

C1_Witness ==
    /\ Constructed
    /\ Len(layers) >= 2
    /\ DeclaredLag(1) = 0
    /\ DeclaredLag(2) > 0
    /\ layers[2].input_dims = Append(layers[1].output_dims, DeclaredLag(2))
    /\ layers[1].input_dims = input_dims.v

FiveFields == {BroadcastFields[i].key : i \in DOMAIN BroadcastFields}

ListOfWrongLength(k) ==
    /\ IsList(params_dict[k])
    /\ Len(params_dict[k].v) # num_layers

\* C2 as stated: a list of the wrong length under any of the six keys,
\* time_expand included, makes construction fail with InvalidConfiguration.
C2_SixFieldsChecked ==
    \A k \in FiveFields \cup {"time_expand"} :
       ListOfWrongLength(k) =>
          /\ pc = "failed"
          /\ InvalidConfiguration(err)

\* C2 amended: a list of the wrong length, shorter or longer, under any of
\* the five keys activation_funcs, weights_initializers, biases_initializers,
\* num_inh, pos_constraints makes construction fail with ValueError before
\* any layer exists; ValueError is raised for nothing else; a time_expand
\* list is never rejected for its length: self.time_expand is the list
\* itself, padded with zeros when it is shorter than the layer list.
C2_FiveFieldsChecked ==
    /\ \A k \in FiveFields :
          ListOfWrongLength(k) =>
             /\ pc = "failed"
             /\ err.class = "ValueError"
             /\ InvalidConfiguration(err)
             /\ layers = <<>>
    /\ (pc = "failed" /\ err.class = "ValueError") =>
          \E k \in FiveFields : ListOfWrongLength(k)
    /\ pc \in {"layer", "finish"} \cup {"constructed", "build", "built"} =>
          LET tx == params_dict["time_expand"].v
          IN  /\ Len(time_expand) = (IF Len(tx) < num_layers THEN num_layers ELSE Len(tx))
              /\ \A i \in 1..Len(time_expand) : time_expand[i] \in {DeclaredLag(i), 0}
              /\ \A i \in 1..Len(time_expand) : i > Len(tx) => time_expand[i] = 0

C2_Witness ==
    /\ pc = "failed"
    /\ err.class = "ValueError"
    /\ IsList(params_dict["num_inh"])
    /\ Len(params_dict["num_inh"].v) = num_layers + 1
    /\ IsList(params_dict["activation_funcs"])
    /\ Len(params_dict["activation_funcs"].v) = num_layers

\* C3 as stated: with scope absent, the record absent, layer_sizes absent
\* from the record, or input dimensions neither given nor held by the
\* record (key missing or None), construction fails with
\* MissingConfiguration and with no other error.
C3_MissingConfiguration ==
    (/\ Returned
     /\ \/ scope.t = "none"
        \/ ~have_params
        \/ params_dict["layer_sizes"].t = "absent"
        \/ /\ arg_input_dims.t = "none"
           /\ params_dict["input_dims"].t \in {"absent", "none"})
    => (pc = "failed" /\ MissingConfiguration(err))

\* the layer indices (0-based) whose tag the chain does not recognise
UnrecognisedLayers ==
    {i \in 0..(num_layers - 1) :
        i < Len(layer_types) /\ layer_types[i + 1] \notin RecognisedTypes}

DenseCall ==
    /\ scope.t # "none"
    /\ arg_input_dims.t # "none"
    /\ have_params
    /\ IsList(params_dict["layer_sizes"])
    /\ IsList(params_dict["layer_types"])
    /\ Len(layer_types) = num_layers
    /\ \A i \in 1..Len(layer_types) : layer_types[i] = "normal"
    /\ bare

\* the keys without a default that the record does not hold
NotSupplied(ks) == \A k \in ks : params_dict[k].t \in {"unread", "absent"}

UndefaultedKeys ==
    {"input_dims", "normalize_weights", "conv_filter_widths", "shift_spacing",
     "dilation", "xy_out"}

\* C5 as stated: a record holding only layer_sizes and layer_types builds a
\* dense network.
C5_OnlySizesAndTypes ==
    (Returned /\ DenseCall /\ NotSupplied(UndefaultedKeys)) => Constructed

\* C5 amended: a record holding only layer_sizes, layer_types and
\* normalize_weights (one entry per layer) builds a dense network: one
\* 'normal' layer per declared size, every key that __init__ defaults
\* holding its default, one entry per layer.
C5_SizesTypesAndNormalize ==
    (/\ Returned
     /\ DenseCall
     /\ IsList(params_dict["normalize_weights"])
     /\ NotSupplied(UndefaultedKeys \ {"normalize_weights"}))
    => /\ Constructed
       /\ Len(layers) = num_layers
       /\ \A i \in 1..Len(layers) : layers[i].type = "normal"
       /\ \A i \in DOMAIN BroadcastFields :
             params_dict[BroadcastFields[i].key].v =
                Rep(BroadcastFields[i].default.v[1], num_layers)
       /\ time_expand = Rep(0, num_layers)
       /\ log = FALSE

C5_Witness ==
    /\ pc = "constructed"
    /\ DenseCall
    /\ IsList(params_dict["normalize_weights"])
    /\ NotSupplied(UndefaultedKeys \ {"normalize_weights"})
    /\ num_layers = 2
    /\ Len(layers) = 2

\* C6 as stated: after construction self.input_dims has exactly three
\* elements.
C6_InputDimsTriple == Constructed => Len(self_input_dims) = 3

\* C7 as stated: after construction the layers, layer_types and time_expand
\* have the same length.
C7_EqualLengths ==
    Constructed =>
       /\ Len(layers) = Len(layer_types)
       /\ Len(layer_types) = Len(time_expand)

\* C8 as stated: after construction time_spread is the sum of the network's
\* time_expand.
C8_SpreadIsSumOfTimeExpand == Constructed => time_spread = Sum(time_expand)

\* C8 amended: after construction time_spread is the sum of the declared
\* lag counts (the record's time_expand list), which is the sum of the
\* network's time_expand plus the lag counts that went to 'temporal' and
\* 'sp_temporal' layers as num_lags and were then zeroed.
C8_SpreadIsSumOfDeclared ==
    Constructed =>
       /\ time_spread = Sum(params_dict["time_expand"].v)
       /\ time_spread = Sum(time_expand) + Sum([i \in 1..Len(layers) |-> layers[i].num_lags])

C8_Witness ==
    /\ Constructed
    /\ \E i \in 1..Len(layers) : layers[i].type = "temporal" /\ layers[i].num_lags > 0
    /\ \E i \in 1..Len(layers) : layers[i].type = "normal" /\ time_expand[i] > 0
    /\ time_spread > Sum(time_expand)

\* entry [b, f*L + l] of the time embedding of x with L lags, indices from 0:
\* x[b - l, f] when b - l >= 0 and 0 otherwise
Lagged(x, b, f, l) == IF b - l >= 0 THEN x[b - l + 1][f + 1] ELSE 0

\* C9: time_embed of a B x F input with L >= 1 lags returns B rows of F*L
\* entries with output[b, f*L + l] = input[b - l, f] when b - l >= 0 and 0
\* otherwise, for all 0 <= b < B, 0 <= f < F, 0 <= l < L.
C9_TimeEmbedFormula ==
    te.stage = "done" =>
       LET B == te.batch_sz
           L == te.num_lags
           F == Len(te.inputs[1])
       IN  /\ Len(te.out) = B
           /\ \A b \in 0..(B - 1) :
                 /\ Len(te.out[b + 1]) = F * L
                 /\ \A f \in 0..(F - 1) : \A l \in 0..(L - 1) :
                       te.out[b + 1][f * L + l + 1] = Lagged(te.inputs, b, f, l)

C9_Witness ==
    /\ te.stage = "done"
    /\ te.batch_sz = 3
    /\ te.num_lags = 2
    /\ Len(te.inputs[1]) = 2
    /\ te.inputs = <<<<1, 2>>, <<2, 1>>, <<2, 2>>>>
    /\ te.out = <<<<1, 0, 2, 0>>, <<2, 1, 1, 2>>, <<2, 2, 2, 1>>>>

\* the closed form of the time embedding, for the tensors of a build pass
Embedded(x, L) ==
    [b \in 1..Len(x) |->
        [k \in 1..(Len(x[1]) * L) |-> Lagged(x, b - 1, (k - 1) \div L, (k - 1) % L)]]

\* what the k-th layer built (1-based) should have been given as running
\* input: the caller's tensor, or the outputs of the layer built before it
Running(k) ==
    IF k = 1 THEN NetInput(batch_size, Prod(SubSeq(self_input_dims, 1, 3)))
    ELSE LayerOutputs(k - 2, batch_size, layers[k - 1].output_dims)

\* C10: the build pass builds layers 0, 1, ... in order, one per step and
\* num_layers in all; layer 0 is given the network input and layer i the
\* outputs of layer i-1, time-embedded with time_expand[i] lags when
\* time_expand[i] > 0 and unchanged when time_expand[i] = 0; the outputs of
\* the layer built last are the running input.
C10_BuildOrder ==
    pc \in {"build", "built"} =>
       /\ Len(received) <= num_layers
       /\ pc = "built" => Len(received) = num_layers
       /\ \A k \in 1..Len(received) :
             /\ time_expand[k] > 0 => received[k] = Embedded(Running(k), time_expand[k])
             /\ time_expand[k] = 0 => received[k] = Running(k)
       /\ inputs = Running(Len(received) + 1)

C10_Witness ==
    /\ pc = "built"
    /\ num_layers = 2
    /\ batch_size = 2
    /\ time_expand = <<0, 2>>
    /\ received[1] = NetInput(2, Prod(SubSeq(self_input_dims, 1, 3)))
    /\ received[2] = <<<<111, 0, 112, 0>>, <<121, 111, 122, 112>>>>


\* C11: after construction every 'temporal' or 'sp_temporal' layer holds the
\* lag count declared for it as num_lags and the network's time_expand entry
\* of that layer is 0, and stays 0 through the build pass; the build pass
\* gives such a layer the running input itself, never its time embedding.
C11_TemporalNotEmbedded ==
    Constructed =>
       /\ \A i \in 1..Len(layers) :
             layers[i].type \in {"temporal", "sp_temporal"} =>
                /\ layers[i].num_lags = DeclaredLag(i)
                /\ time_expand[i] = 0
       /\ \A k \in 1..Len(received) :
             layers[k].type \in {"temporal", "sp_temporal"} =>
                received[k] = Running(k)

C11_Witness ==
    /\ pc = "built"
    /\ num_layers = 2
    /\ layers[1].type = "sp_temporal"
    /\ layers[2].type = "temporal"
    /\ layers[1].num_lags = 2
    /\ layers[2].num_lags = 2
    /\ params_dict["time_expand"].v = <<2, 2>>
    /\ time_expand = <<0, 0>>
    /\ received[2] = LayerOutputs(0, batch_size, layers[1].output_dims)


\* the product of the lag dimensions of a layer input: 1 when it has none
LagProduct(d) == IF Len(d) > 3 THEN Prod(SubSeq(d, 4, Len(d))) ELSE 1

\* C12 as stated: every layer of kind 'conv', 'biconv', 'convsep', 'convLNL'
\* or 'conv_xy' built with an explicit filter width w has the filter shape
\* (channels x lag product, w, w) when the height of its input is > 1 and
\* (channels x lag product, w, 1) when the height is 1.
C12_FilterShape ==
    \A i \in 1..Len(layers) :
       (/\ layers[i].type \in {"conv", "biconv", "convsep", "convLNL", "conv_xy"}
        /\ params_dict["conv_filter_widths"].v[i].t = "int")
       => LET d == layers[i].input_dims
              w == params_dict["conv_filter_widths"].v[i].v[1]
          IN  layers[i].filter_dims =
                 <<d[1] * LagProduct(d), w, IF d[3] > 1 THEN w ELSE 1>>


\* the SideNetwork has derived its input_dims / has been constructed
SideDerived == side.stage \in {"super", "ready"}
SideReady == side.stage = "ready"

UpSizes == side.params.layer_sizes
UpTypes == side.params.layer_types
UpDims == side.params.input_dims

\* every upstream layer is of a kind SideNetwork takes as convolutional
UpAllConv == \A nn \in 1..Len(UpTypes) : UpTypes[nn] \in SideConvTypes
UpAnyBiconv == \E nn \in 1..Len(UpTypes) : UpTypes[nn] = "biconv"

\* size x upstream width x height, doubled for a 'biconv' layer
UnitsTimesSpace(nn) ==
    UpSizes[nn] * UpDims[2] * UpDims[3] * (IF UpTypes[nn] = "biconv" THEN 2 ELSE 1)

Doubled(nn) ==
    \/ nn = 1 /\ UpTypes[1] = "biconv"
    \/ /\ nn \in {1, 2}
       /\ Len(UpTypes) >= 2
       /\ UpTypes[1] # "biconv"
       /\ UpTypes[2] = "biconv"

ChannelUnits(nn) == IF Doubled(nn) THEN 2 * UpSizes[nn] ELSE UpSizes[nn]

C14_FirstLayerDecides ==
    SideReady =>
       IF UpTypes[1] \in SideConvTypes
       THEN /\ side.nx_ny = <<IF UpAnyBiconv THEN UpDims[2] \div 2 ELSE UpDims[2], UpDims[3]>>
            /\ side.num_space = side.nx_ny[1] * side.nx_ny[2]
       ELSE /\ side.num_units = UpSizes
            /\ side.nx_ny = <<1, 1>>
            /\ side.input_dims = <<Sum(UpSizes), 1, 1>>

\* C14 amended: when every upstream layer is convolutional the spatial
\* extent is the upstream width x height, the width halved (rounding down)
\* when any layer is 'biconv'; when the first layer is not convolutional
\* the units are the declared sizes, the extent is 1 x 1 and input_dims is
\* [sum of sizes, 1, 1]; when the first layer is convolutional and a later
\* one is not, the extent is 1 x 1 as well, a convolutional layer
\* contributes size x width x height units (doubled for 'biconv'), any
\* other layer its size, and input_dims is [sum of units, 1, 1].
C14_AllLayersDecide ==
    SideReady =>
       /\ side.num_space = side.nx_ny[1] * side.nx_ny[2]
       /\ UpAllConv =>
             side.nx_ny = <<IF UpAnyBiconv THEN UpDims[2] \div 2 ELSE UpDims[2], UpDims[3]>>
       /\ UpTypes[1] \notin SideConvTypes =>
             /\ side.num_units = UpSizes
             /\ side.nx_ny = <<1, 1>>
             /\ side.input_dims = <<Sum(UpSizes), 1, 1>>
       /\ (UpTypes[1] \in SideConvTypes /\ ~UpAllConv) =>
             /\ side.num_units =
                   [nn \in 1..Len(UpSizes) |->
                       IF UpTypes[nn] \in SideConvTypes
                       THEN UnitsTimesSpace(nn) ELSE UpSizes[nn]]
             /\ side.nx_ny = <<1, 1>>
             /\ side.input_dims = <<Sum(side.num_units), 1, 1>>

C14_Witness ==
    /\ SideReady
    /\ UpTypes = <<"biconv", "normal">>
    /\ UpDims = <<1, 2, 2>>
    /\ side.num_units = <<16, 3>>
    /\ side.nx_ny = <<1, 1>>
    /\ side.input_dims = <<19, 1, 1>>


\* the tensor SideNetwork.build_graph assembles from the upstream outputs
Assembled ==
    RowsOf(InputsRaw(Len(side.num_units), batch_size,
                     UpstreamOutputDims(UpSizes, UpTypes, UpDims),
                     side.num_space, side.num_units).data,
           Sum(side.num_units) * side.num_space)

\* the running input of the k-th layer built (1-based) by the SideNetwork
SideRunning(k) ==
    IF k = 1 THEN Assembled
    ELSE LayerOutputs(k - 2, batch_size, layers[k - 1].output_dims)

\* C20 as stated: in the build pass of a SideNetwork every layer is given
\* what the loop of FFNetwork.build_graph would give it: the running input
\* through time_embed when the layer's time_expand entry is > 0, the
\* running input itself otherwise.
C20_SameAsBaseLoop ==
    pc \in {"side_build", "side_built"} =>
       \A k \in 1..Len(received) :
          received[k] = BuildInput(SideRunning(k), time_expand[k], batch_size)


\* the flattening of the (layer, variable) pairs selected, in layer order,
\* weights before biases
RECURSIVE Selected(_, _)
Selected(list, n) ==
    IF n = 0 THEN <<>>
    ELSE LET w == [var |-> "weights", layer |-> n - 1]
             b == [var |-> "biases", layer |-> n - 1]
         IN  Selected(list, n - 1)
             \o (IF list[n].weights /\ list[n].biases THEN <<w, b>>
                 ELSE IF list[n].weights THEN <<w>>
                 ELSE IF list[n].biases THEN <<b>> ELSE <<>>)

\* C19: the list build_fit_variable_list returns holds the weight handle of
\* layer i exactly when the 'weights' flag of layer i is true and its bias
\* handle exactly when its 'biases' flag is true, no handle twice, the
\* handles of a layer of smaller index before those of a larger one and a
\* layer's weight handle before its bias handle.
C19_FitVariableList ==
    fit.stage = "returned" =>
       LET v == fit.var_list
       IN  /\ \A i \in 0..(num_layers - 1) :
                 /\ fit.list[i + 1].weights <=>
                       (\E q \in 1..Len(v) : v[q] = [var |-> "weights", layer |-> i])
                 /\ fit.list[i + 1].biases <=>
                       (\E q \in 1..Len(v) : v[q] = [var |-> "biases", layer |-> i])
           /\ \A q \in 1..Len(v) : v[q].layer \in 0..(num_layers - 1)
           /\ \A q, r \in 1..Len(v) : q < r =>
                 /\ v[q] # v[r]
                 /\ v[q].layer <= v[r].layer
                 /\ v[q].layer = v[r].layer => (v[q].var = "weights" /\ v[r].var = "biases")
           /\ v = Selected(fit.list, num_layers)

C19_Witness ==
    /\ fit.stage = "returned"
    /\ num_layers = 2
    /\ fit.list = <<[weights |-> TRUE, biases |-> TRUE], [weights |-> FALSE, biases |-> TRUE]>>
    /\ fit.var_list = <<[var |-> "weights", layer |-> 0], [var |-> "biases", layer |-> 0],
                        [var |-> "biases", layer |-> 1]>>

\* SamplerNetwork.build_graph has been called with x
BuildGiven(x) == sampler.stage = "ready" /\ pc # "sampler_ready" /\ sampler.build_inputs = x

\* SamplerNetwork.__init__ has returned or raised
SamplerReturned == sampler.stage \in {"ready", "failed"}

\* C15: build_graph given a single tensor or the pair [image, None] uses the
\* network's owned location variable as the locations, and given the pair
\* [image, explicit_locations] makes explicit_locations the active location
\* reference, which it stays in every later state (a later
\* build_fit_variable_list with the locations flag returns it), whether the
\* network initialised its own locations or names an upstream location
\* network.
C15_LocationReference ==
    /\ (BuildGiven(Single(Image)) \/ BuildGiven(ListOf(<<Image, PyNone>>)))
         => /\ err = NoErr
            /\ sampler.locs = OwnedVariable
    /\ BuildGiven(ListOf(<<Image, ExplicitLocations>>))
         => /\ err = NoErr
            /\ sampler.locs = ExplicitLocations
            /\ sampler.locations_var = ExplicitLocations
            /\ (fit.stage = "returned" /\ fit.locations)
                  => fit.var_list[Len(fit.var_list)] = ExplicitLocations

\* build_graph raised the TypeError of line 891 before any layer was built
RejectedInput ==
    /\ pc = "failed"
    /\ err = Exc("TypeError", "Incorrect input shape in SamplerNetwork.", -1)
    /\ SamplerInvalidConfiguration(err)
    /\ received = <<>>

\* C16 as stated: build_graph fails with InvalidConfiguration, building no
\* layer, for every input that is neither a single tensor nor a two-element
\* list, a single-element list included.
C16_OnlyTensorOrPair ==
    \A x \in SamplerInputChoices :
        (BuildGiven(x) /\ x.islist /\ Len(x.items) # 2) => RejectedInput

\* C16: build_graph fails with InvalidConfiguration, building no layer, for
\* every list of no or of more than two elements; a single-element list
\* [image] is accepted and resolved as the single tensor image is, and is
\* never rejected for its shape.
C16_ListOfOneAccepted ==
    \A x \in SamplerInputChoices :
        BuildGiven(x) =>
            /\ (x.islist /\ Len(x.items) \notin {1, 2}) => RejectedInput
            /\ (x.islist /\ Len(x.items) = 1) =>
                  /\ ~SamplerInvalidConfiguration(err)
                  /\ pc # "failed" =>
                        /\ sampler.image = x.items[1]
                        /\ sampler.locs = OwnedVariable

\* both a rejected list and an accepted single-element list whose layers
\* were built
C16_Witness ==
    \/ /\ BuildGiven(ListOf(<<Image>>))
       /\ pc = "sampler_built"
       /\ Len(received) = num_layers
    \/ /\ BuildGiven(ListOf(<<Image, ExplicitLocations, Tn("extra", -1)>>))
       /\ RejectedInput

\* the parts of C17 on the coordinate array: none with a location network,
\* otherwise one of shape (1, 2 x num_locations), all zero under 'zeros'
OwnedArray ==
    (sampler.stage = "ready") =>
        IF ~NoLocationNet
        THEN sampler.locations = NoArray
        ELSE /\ sampler.locations.t = "array"
             /\ sampler.locations.shape = <<1, 2 * params_dict["num_locations"].v[1]>>
             /\ Len(sampler.locations.data) = 2 * params_dict["num_locations"].v[1]
             /\ params_dict["location_initializer"] = StrV("zeros")
                  => \A i \in DOMAIN sampler.locations.data : sampler.locations.data[i] = 0

\* the strategy name of line 832 is one of the three of lines 833-838
KnownStrategy ==
    DefaultIfAbsent(params_dict["location_initializer"], StrV("normal"))
        \in {StrV("normal"), StrV("trunc_normal"), StrV("zeros")}

\* FFNetwork.__init__ returned the network to SamplerNetwork.__init__
SuperReturned == SamplerReturned /\ ~MissingConfiguration(err) /\ ~InvalidConfiguration(err)

\* C17 as stated: no local coordinate array with an upstream location
\* network, otherwise an array of shape (1, 2 x num_locations), all zero
\* under 'zeros'; construction fails with InvalidConfiguration when the
\* strategy name is not one of normal / trunc_normal / zeros, or when
\* neither a location network nor num_locations is supplied.
C17_InvalidConfiguration ==
    /\ OwnedArray
    /\ (SuperReturned /\ ~KnownStrategy)
         => (sampler.stage = "failed" /\ SamplerInvalidConfiguration(err))
    /\ (SuperReturned /\ NoLocationNet /\ params_dict["num_locations"] = Absent)
         => (sampler.stage = "failed" /\ SamplerInvalidConfiguration(err))

\* C17: no local coordinate array with an upstream location network,
\* otherwise an array of shape (1, 2 x num_locations), all zero under
\* 'zeros'.  Without a location network, construction fails with
\* MissingConfiguration when num_locations is not supplied and otherwise
\* with InvalidConfiguration when the strategy name is not one of normal /
\* trunc_normal / zeros; with a location network neither num_locations nor
\* the strategy name is looked at and construction succeeds.
C17_SamplerConstruction ==
    /\ OwnedArray
    /\ SuperReturned =>
         IF ~NoLocationNet THEN sampler.stage = "ready"
         ELSE IF params_dict["num_locations"] = Absent
         THEN sampler.stage = "failed" /\ SamplerMissingConfiguration(err)
         ELSE IF ~KnownStrategy
         THEN /\ sampler.stage = "failed"
              /\ err = Exc("ValueError", "Invalid location_initializer", -1)
              /\ SamplerInvalidConfiguration(err)
         ELSE sampler.stage = "ready"

\* an owned all-zero array for two locations
C17_Witness ==
    /\ sampler.stage = "ready"
    /\ NoLocationNet
    /\ params_dict["num_locations"] = IntV(2)
    /\ sampler.locations = Array(<<1, 4>>, <<0, 0, 0, 0>>)

\* the keys lines 136-181 write into the record
DefaultedKeys ==
    {BroadcastFields[i].key : i \in DOMAIN BroadcastFields}
        \cup {"reg_initializers", "time_expand", "log_activations"}

\* C18: FFNetwork construction, whether it succeeds or fails, leaves the
\* caller's input_dims list and the caller's configuration record as they
\* were before the call: the list is what the caller passed, and a key the
\* caller left out of the record is still not in it.
C18_CallerObjectsUntouched ==
    Returned =>
        /\ arg_input_dims = given_input_dims
        /\ bare => \A k \in DefaultedKeys : params_dict[k].t \in {"unread", "absent"}

\* the layers of a SamplerNetwork build pass that have been given their input
SamplerBuilt ==
    IF sampler.stage = "ready" /\ pc \in {"sampler_build", "sampler_built"}
    THEN DOMAIN received ELSE {}

\* the running single tensor before layer nn (1-based): the image, then the
\* outputs of the layer before
RunningTensor(nn) == IF nn = 1 THEN Single(sampler.image) ELSE Single(Tn("outputs", nn - 2))

\* C21: in SamplerNetwork.build_graph, for every accepted build input and
\* every layer order, each grid-sample layer is given the pair
\* [image, locations] and every other layer the running single tensor (the
\* image for layer 0, the previous layer's outputs otherwise), never a list.
C21_GridSamplePairElseTensor ==
    \A nn \in SamplerBuilt :
        received[nn] = IF layers[nn].type = "grid_sample"
                       THEN ListOf(<<sampler.image, sampler.locs>>)
                       ELSE RunningTensor(nn)

\* the output_dims of the upstream layers
UpOutputDims == UpstreamOutputDims(UpSizes, UpTypes, UpDims)

\* the spatial extent and the channel count of upstream layer nn (1-based)
NativeSpace(nn) == Prod(SubSeq(UpOutputDims[nn], 2, 3))
NativeFilters(nn) == UpOutputDims[nn][1]

\* upstream layer nn is reshaped directly
Direct(nn) == side.num_space = 1 \/ side.num_space = NativeSpace(nn)

\* the values one batch element of upstream layer nn must hold for its
\* slice to come out with one row per batch element
Consistent(nn) ==
    IF Direct(nn)
    THEN Prod(UpOutputDims[nn]) = side.num_space * side.num_units[nn]
    ELSE /\ 2 * side.num_space <= NativeSpace(nn)
         /\ 2 * NativeFilters(nn) = side.num_units[nn]

\* SideNetwork.build_graph has assembled its input / has raised
SideAssembled == side.stage = "ready" /\ pc \in {"side_build", "side_built"}
SideRaised == side.stage = "ready" /\ pc = "failed"

\* the flattened tensor handed to layer 0
FlatInputs == IF received = <<>> THEN inputs ELSE received[1]

\* entry (b, p, c) of the slice of upstream layer nn in the flattened tensor:
\* batch element b, position p, channel c of the layer (p and c from 0)
SliceEntry(nn, b, p, c) ==
    FlatInputs[b][p * Sum(side.num_units) + Sum(SubSeq(side.num_units, 1, nn - 1)) + c + 1]

\* channel k of position q of batch element b of upstream layer nn (q and k
\* from 0)
UpEntry(nn, b, q, k) ==
    UpstreamOutputs(nn - 1, batch_size, UpOutputDims[nn])[b][q * NativeFilters(nn) + k + 1]

\* the slice of upstream layer nn is as C22 describes it
SliceAsClaimed(nn) ==
    \A b \in 1..batch_size, p \in 0..(side.num_space - 1), c \in 0..(side.num_units[nn] - 1) :
        SliceEntry(nn, b, p, c) =
            IF Direct(nn)
            THEN UpstreamOutputs(nn - 1, batch_size, UpOutputDims[nn])[b]
                     [p * side.num_units[nn] + c + 1]
            ELSE IF c < NativeFilters(nn) THEN UpEntry(nn, b, p, c)
            ELSE UpEntry(nn, b, p + side.num_space, c - NativeFilters(nn))

C23_WidthIsInputDims ==
    /\ SideReady =>
          /\ side.input_dims = SubSeq(self_input_dims, 1, 3)
          /\ Sum(side.num_units) * side.num_space = Prod(side.input_dims)
    /\ SideAssembled =>
          \A b \in DOMAIN FlatInputs : Len(FlatInputs[b]) = Prod(side.input_dims)

\* a binocular upstream network of two layers has been assembled
C23_Witness ==
    /\ SideAssembled
    /\ side.all_convolutional
    /\ side.isbinocular
    /\ Len(UpSizes) = 2
    /\ Len(FlatInputs) = batch_size
    /\ Len(FlatInputs[1]) = Prod(side.input_dims)

====
